---- MODULE Spec2Model ----
(***************************************************************************)
(* Model of the aligned_layer operator (package operator): the event loop  *)
(* Operator.Start, the task processor ProcessNewTaskCreatedLog, the PLONK  *)
(* and SP1 verifier dispatch, SignTaskResponse and the detached aggregator *)
(* submissions.                                                            *)
(*                                                                         *)
(* Optional values (Go pointers that may be nil) are sequences of length   *)
(* at most one: Nil is <<>>, a present value v is <<v>>.                   *)
(***************************************************************************)
EXTENDS Integers, Sequences, FiniteSets, TLC

(* ---------------------------- bounds ----------------------------------- *)

\* NewTask events the subscription delivers in one run.
MaxTasks == 2
\* Proofs in one task (len(task.ProofVerificationsData)).
MaxProofs == 2
\* Errors the subscriptions report on sub.Err() in one run.
MaxSubErrors == 1

(* ------------------- program constants (scaled) ------------------------ *)

\* sp1.MaxProofSize and sp1.MaxElfBufferSize: the fixed FFI buffer sizes.
MaxProofSize == 2
MaxElfBufferSize == 2

(* ---------------------------- values ----------------------------------- *)

Nil == <<>>
Some(x) == <<x>>
Range(s) == {s[i] : i \in DOMAIN s}

\* DAPayload.Solution tags; "UnknownDA" is a tag outside the three the
\* switch of ProcessNewTaskCreatedLog names.
Calldata == "Calldata"
EigenDA == "EigenDA"
Celestia == "Celestia"
UnknownDA == "UnknownDA"

\* ProvingSystemId tags; "0xFFFF" is an id outside the three the switch names.
GnarkPlonkBls12_381 == "GnarkPlonkBls12_381"
GnarkPlonkBn254 == "GnarkPlonkBn254"
SP1 == "SP1"
UnknownSystem == "0xFFFF"
KnownSystems == {GnarkPlonkBls12_381, GnarkPlonkBn254, SP1}

\* What the DA backend holds for a payload: the blob it returns, or an error.
\* A payload that is never fetched has no backend entry (NoFetch).
FetchOk(b) == [err |-> FALSE, blob |-> b]
FetchErr == [err |-> TRUE, blob |-> <<>>]
NoFetch == [err |-> FALSE, blob |-> <<>>]

\* The operator's identity, fixed at construction.
KeyPair == "blsKeyPair"
OperatorId == <<"operatorId", KeyPair>>

(* ----------------------- proof verifiers ------------------------------- *)

\* ecc.ID of the two curves, as the tag a verifying key carries.
CurveTag(curve) == IF curve = "BN254" THEN 0 ELSE 1

\* ReadFrom of gnark's proof, witness and verifying key: an empty reader
\* cannot be deserialized; otherwise the object is what the bytes encode.
ReadFrom(bytes) == IF Len(bytes) = 0 THEN Nil ELSE Some(bytes[1])

\* plonk.Verify: the proof must attest the public witness under a
\* verifying key of the curve.
PlonkVerify(proof, verificationKey, pubInput, curve) ==
    /\ verificationKey = CurveTag(curve)
    /\ proof = pubInput

verifyPlonkProof(proofBytes, pubInputBytes, verificationKeyBytes, curve) ==
    LET proof == ReadFrom(proofBytes)
        pubInput == ReadFrom(pubInputBytes)
        verificationKey == ReadFrom(verificationKeyBytes)
    IN  IF proof = Nil THEN FALSE
        ELSE IF pubInput = Nil THEN FALSE
        ELSE IF verificationKey = Nil THEN FALSE
        ELSE PlonkVerify(proof[1], verificationKey[1], pubInput[1], curve)

verifyPlonkProofBLS12_381(proofBytes, pubInputBytes, verificationKeyBytes) ==
    verifyPlonkProof(proofBytes, pubInputBytes, verificationKeyBytes, "BLS12_381")

verifyPlonkProofBN254(proofBytes, pubInputBytes, verificationKeyBytes) ==
    verifyPlonkProof(proofBytes, pubInputBytes, verificationKeyBytes, "BN254")

\* make([]byte, size) followed by copy(dst, src): a zeroed buffer of the
\* fixed size holding the first min(size, len(src)) bytes of src.
CopyInto(size, src) ==
    [i \in 1..size |-> IF i <= Len(src) THEN src[i] ELSE 0]

\* Verdicts of the SP1 verifier when it is handed a declared length larger
\* than its buffer: what it reads past the buffer is not determined by the
\* caller, so either verdict is possible.
Sp1OutOfBounds == {"true", "false"}

\* sp1.VerifySp1Proof(proofBuf, proofLen, elfBuf, elfLen): within the
\* buffers it checks the declared prefix of the proof against the ELF.
VerifySp1Proof(proofBuffer, proofLen, elfBuffer, elfLen, oob) ==
    IF proofLen > MaxProofSize \/ elfLen > MaxElfBufferSize THEN oob
    ELSE IF proofLen = 0 \/ elfLen = 0 THEN "false"
    ELSE IF SubSeq(proofBuffer, 1, proofLen) = SubSeq(elfBuffer, 1, elfLen)
         THEN "true" ELSE "false"

\* Variant: a proof that does not verify abandons the task.
BoolOutcomeRejecting(b) == IF b THEN "true" ELSE "abandon"

\* The verdict a PLONK verifier returned, as the outcome of the iteration.
BoolOutcome(b) == IF b THEN "true" ELSE "false"

(* ------------------------- task processor ------------------------------ *)

\* One element of task.ProofVerificationsData.  Backend is what the DA
\* backend named by Solution answers for this payload.
VerificationData(solution, data, backend, system, pubInput, vk) ==
    [Solution |-> solution, ProofAssociatedData |-> data, Backend |-> backend,
     ProvingSystemId |-> system, PubInput |-> pubInput, VerificationKey |-> vk]

\* o.getProofFromEigenDA / o.getProofFromCelestia: the backend's answer.
getProofFromEigenDA(verificationData) == verificationData.Backend
getProofFromCelestia(verificationData) == verificationData.Backend

\* Variant: the switch has no Calldata case; the proof stays empty.
ResolveProofWithoutCalldata(verificationData) ==
    CASE verificationData.Solution = EigenDA ->
            getProofFromEigenDA(verificationData)
      [] verificationData.Solution = Celestia ->
            getProofFromCelestia(verificationData)
      [] OTHER -> [err |-> FALSE, blob |-> <<>>]

\* Variant: the switch has a default branch that returns nil.
ResolveProofDefaultAbandons(verificationData) ==
    CASE verificationData.Solution = Calldata ->
            [err |-> FALSE, blob |-> verificationData.ProofAssociatedData]
      [] verificationData.Solution = EigenDA ->
            getProofFromEigenDA(verificationData)
      [] verificationData.Solution = Celestia ->
            getProofFromCelestia(verificationData)
      [] OTHER -> [err |-> TRUE, blob |-> <<>>]

\* The DA switch of the loop body: the proof bytes, or err when the fetch
\* failed (the body then returns nil).  A Solution the switch does not name
\* leaves proof at its zero value, the empty slice.
ResolveProof(verificationData) ==
    CASE verificationData.Solution = Calldata ->
            [err |-> FALSE, blob |-> verificationData.ProofAssociatedData]
      [] verificationData.Solution = EigenDA ->
            getProofFromEigenDA(verificationData)
      [] verificationData.Solution = Celestia ->
            getProofFromCelestia(verificationData)
      [] OTHER -> [err |-> FALSE, blob |-> <<>>]

\* Variant: the default branch logs the unknown id and records false (the
\* return nil is missing).
DispatchVerifierDefaultFalse(proof, verificationData, oob) ==
    LET pubInput == verificationData.PubInput
        proofLen == Len(proof)
    IN  CASE verificationData.ProvingSystemId = GnarkPlonkBls12_381 ->
                BoolOutcome(verifyPlonkProofBLS12_381(
                    proof, pubInput, verificationData.VerificationKey))
          [] verificationData.ProvingSystemId = GnarkPlonkBn254 ->
                BoolOutcome(verifyPlonkProofBN254(
                    proof, pubInput, verificationData.VerificationKey))
          [] verificationData.ProvingSystemId = SP1 ->
                LET proofBytes == CopyInto(MaxProofSize, proof)
                    elf == verificationData.PubInput
                    elfBytes == CopyInto(MaxElfBufferSize, elf)
                    elfLen == Len(elf)
                IN  VerifySp1Proof(proofBytes, proofLen, elfBytes, elfLen, oob)
          [] OTHER -> "false"

\* The proving-system switch of the loop body: "true" or "false" is the
\* verdict stored at the proof's index, "abandon" is the return nil of the
\* default branch.
DispatchVerifier(proof, verificationData, oob) ==
    LET pubInput == verificationData.PubInput
        proofLen == Len(proof)
    IN  CASE verificationData.ProvingSystemId = GnarkPlonkBls12_381 ->
                BoolOutcome(verifyPlonkProofBLS12_381(
                    proof, pubInput, verificationData.VerificationKey))
          [] verificationData.ProvingSystemId = GnarkPlonkBn254 ->
                BoolOutcome(verifyPlonkProofBN254(
                    proof, pubInput, verificationData.VerificationKey))
          [] verificationData.ProvingSystemId = SP1 ->
                LET proofBytes == CopyInto(MaxProofSize, proof)
                    elf == verificationData.PubInput
                    elfBytes == CopyInto(MaxElfBufferSize, elf)
                    elfLen == Len(elf)
                IN  VerifySp1Proof(proofBytes, proofLen, elfBytes, elfLen, oob)
          [] OTHER -> "abandon"

\* Variant: the fetch error is logged but the iteration goes on (the
\* return nil is missing), with the empty proof.
VerifyOneIgnoringFetchError(verificationData, oob) ==
    LET fetched == ResolveProof(verificationData)
    IN  DispatchVerifier(fetched.blob, verificationData, oob)

\* One iteration of the for loop over task.ProofVerificationsData.
VerifyOne(verificationData, oob) ==
    LET fetched == ResolveProof(verificationData)
    IN  IF fetched.err THEN "abandon"
        ELSE DispatchVerifier(fetched.blob, verificationData, oob)

\* Variant: the verdict is stored at the first index instead of index i.
StoreResultAtFirst(results, i, verificationResult) ==
    [results EXCEPT ![1] = verificationResult]

\* proofVerificationResults[i] = verificationResult
StoreResult(results, i, verificationResult) ==
    [results EXCEPT ![i] = verificationResult]

\* Variant: TaskIndex is left at its zero value.
MakeTaskResponseNoIndex(newTaskCreatedLog, proofVerificationResults) ==
    [TaskIndex |-> 0, ProofResults |-> proofVerificationResults]

\* The TaskResponse built after the loop.
MakeTaskResponse(newTaskCreatedLog, proofVerificationResults) ==
    [TaskIndex |-> newTaskCreatedLog.TaskIndex,
     ProofResults |-> proofVerificationResults]

\* The for loop from proof i on: Nil when a proof abandons the task, the
\* response when the loop runs to its end.
RECURSIVE ProcessFrom(_, _, _, _)
ProcessFrom(newTaskCreatedLog, i, results, oob) ==
    LET data == newTaskCreatedLog.BatchProofVerificationTask.ProofVerificationsData
    IN  IF i > Len(data)
        THEN Some(MakeTaskResponse(newTaskCreatedLog, results))
        ELSE LET outcome == VerifyOne(data[i], oob)
             IN  IF outcome = "abandon"
                 THEN Nil
                 ELSE ProcessFrom(newTaskCreatedLog, i + 1,
                                  StoreResult(results, i, outcome = "true"), oob)

ProcessNewTaskCreatedLog(newTaskCreatedLog, oob) ==
    LET numProofs ==
            Len(newTaskCreatedLog.BatchProofVerificationTask.ProofVerificationsData)
        proofVerificationResults == [i \in 1..numProofs |-> FALSE]
    IN  ProcessFrom(newTaskCreatedLog, 1, proofVerificationResults, oob)

\* The call of a DA backend made for proof i.
FetchCall(i, backend) ==
    [kind |-> "fetch", index |-> i, target |-> backend, proof |-> <<>>,
     proofLen |-> 0, elfLen |-> 0]

\* The call of a verifier made for proof i: the proof handed to it, the
\* length declared for it and the length of the public input (for SP1, the
\* length declared for the ELF).
VerifyCall(i, verificationData, proof) ==
    [kind |-> "verify", index |-> i, target |-> verificationData.ProvingSystemId,
     proof |-> proof, proofLen |-> Len(proof),
     elfLen |-> Len(verificationData.PubInput)]

\* The calls made by the iteration of the for loop that ended with the
\* given outcome: the DA backend named by the solution, if it is one of the
\* two that have a backend, then the verifier, if the iteration got to one.
CallsOfOne(i, verificationData, outcome) ==
    LET fetches ==
            IF verificationData.Solution \in {EigenDA, Celestia}
            THEN <<FetchCall(i, verificationData.Solution)>> ELSE <<>>
        verifies ==
            IF outcome # "abandon"
            THEN <<VerifyCall(i, verificationData, ResolveProof(verificationData).blob)>>
            ELSE <<>>
    IN  fetches \o verifies

\* The calls the for loop makes from proof i on, in order.
RECURSIVE CallsFrom(_, _, _)
CallsFrom(newTaskCreatedLog, i, oob) ==
    LET data == newTaskCreatedLog.BatchProofVerificationTask.ProofVerificationsData
    IN  IF i > Len(data)
        THEN <<>>
        ELSE LET outcome == VerifyOne(data[i], oob)
             IN  CallsOfOne(i, data[i], outcome) \o
                 (IF outcome = "abandon"
                  THEN <<>>
                  ELSE CallsFrom(newTaskCreatedLog, i + 1, oob))

(* ------------------------- response signer ----------------------------- *)

\* utils.AbiEncodeTaskResponse: uint32 taskIndex, then the offset, the
\* length and the elements of bool[] proofResults, one word each.
AbiEncodeTaskResponse(taskResponse) ==
    <<taskResponse.TaskIndex, 2, Len(taskResponse.ProofResults)>>
        \o [i \in 1..Len(taskResponse.ProofResults) |->
               IF taskResponse.ProofResults[i] THEN 1 ELSE 0]

\* sha3.NewLegacyKeccak256 over the encoding, first 32 bytes.
Keccak256(encoded) == <<"keccak256", encoded>>

\* KeyPair.SignMessage(digest)
SignMessage(keyPair, digest) == [Signer |-> keyPair, Digest |-> digest]

\* SignTaskResponse on a non-nil response: (signature, nil), or (nil, err)
\* when the ABI encoding fails.
SignTaskResponse(taskResponse, encodeFails) ==
    IF encodeFails
    THEN [signature |-> Nil, err |-> TRUE]
    ELSE [signature |->
              Some(SignMessage(KeyPair, Keccak256(AbiEncodeTaskResponse(taskResponse)))),
          err |-> FALSE]

(* ------------------------------ inputs --------------------------------- *)

\* The proofs a task may carry: one per case of the DA switch, of the
\* proving-system switch and of the verifiers.
ProofInputs ==
    { \* valid, invalid (corrupted) and undeserializable BN254 proofs in calldata
      VerificationData(Calldata, <<1>>, NoFetch, GnarkPlonkBn254, <<1>>, <<0>>),
      VerificationData(Calldata, <<0>>, NoFetch, GnarkPlonkBn254, <<1>>, <<0>>),
      VerificationData(Calldata, <<>>, NoFetch, GnarkPlonkBn254, <<1>>, <<0>>),
      \* undeserializable public witness; undeserializable verifying key
      VerificationData(Calldata, <<1>>, NoFetch, GnarkPlonkBn254, <<>>, <<0>>),
      VerificationData(Calldata, <<1>>, NoFetch, GnarkPlonkBls12_381, <<1>>, <<>>),
      \* SP1: valid, proof longer than MaxProofSize, ELF longer than MaxElfBufferSize
      VerificationData(Calldata, <<1, 0>>, NoFetch, SP1, <<1, 0>>, <<>>),
      VerificationData(Calldata, <<1, 0, 1>>, NoFetch, SP1, <<1, 0>>, <<>>),
      VerificationData(Calldata, <<1, 0>>, NoFetch, SP1, <<1, 0, 1>>, <<>>),
      \* unknown proving system
      VerificationData(Calldata, <<1>>, NoFetch, UnknownSystem, <<1>>, <<0>>),
      \* EigenDA and Celestia: the payload is a locator, the backend holds the proof
      VerificationData(EigenDA, <<0>>, FetchOk(<<1>>), GnarkPlonkBn254, <<1>>, <<0>>),
      VerificationData(EigenDA, <<0>>, FetchErr, GnarkPlonkBn254, <<1>>, <<0>>),
      VerificationData(Celestia, <<0>>, FetchOk(<<1>>), GnarkPlonkBls12_381, <<1>>, <<1>>),
      VerificationData(Celestia, <<0>>, FetchErr, GnarkPlonkBls12_381, <<1>>, <<1>>),
      \* a Solution tag the DA switch does not name
      VerificationData(UnknownDA, <<1>>, NoFetch, GnarkPlonkBn254, <<1>>, <<0>>) }

\* The proofs that decide the path the loop takes: one that verifies, one
\* that does not, one with an unknown proving system, one whose fetch fails.
CoreProofInputs ==
    { VerificationData(Calldata, <<1>>, NoFetch, GnarkPlonkBn254, <<1>>, <<0>>),
      VerificationData(Calldata, <<0>>, NoFetch, GnarkPlonkBn254, <<1>>, <<0>>),
      VerificationData(Calldata, <<1>>, NoFetch, UnknownSystem, <<1>>, <<0>>),
      VerificationData(EigenDA, <<0>>, FetchErr, GnarkPlonkBn254, <<1>>, <<0>>) }

\* task.ProofVerificationsData of the tasks the chain may announce.
ProofLists == UNION {[1..n -> ProofInputs] : n \in 0..MaxProofs}
CoreProofLists == UNION {[1..n -> CoreProofInputs] : n \in 0..MaxProofs}

\* The NewTaskCreated log with the given index and proofs.
NewTaskCreated(taskIndex, proofs) ==
    [TaskIndex |-> taskIndex,
     BatchProofVerificationTask |-> [ProofVerificationsData |-> proofs]]

ProofsOf(newTaskCreatedLog) ==
    newTaskCreatedLog.BatchProofVerificationTask.ProofVerificationsData

\* The verifier of proof p is handed a declared length beyond its buffer.
Oversized(p) ==
    /\ p.ProvingSystemId = SP1
    /\ ~ResolveProof(p).err
    /\ \/ Len(ResolveProof(p).blob) > MaxProofSize
       \/ Len(p.PubInput) > MaxElfBufferSize

\* What the SP1 verifier may do during the processing of a task.
Sp1Behaviours(newTaskCreatedLog) ==
    IF \E i \in DOMAIN ProofsOf(newTaskCreatedLog) :
           Oversized(ProofsOf(newTaskCreatedLog)[i])
    THEN Sp1OutOfBounds ELSE {"false"}

(* ------------------------------- state --------------------------------- *)

VARIABLES
    pc,                  \* position of the goroutine running main, then Start
    startupFailures,     \* what fails while NewOperatorFromConfig runs
    fatalLog,            \* message of the log.Fatalf that ended the process
    panic,               \* where the process panicked, "" while it runs
    ctxCancelled,        \* the ctx argument of Start has been cancelled
    sub,                 \* Start's local sub: index into subState, 0 before line 104
    subState,            \* every subscription opened so far: active, failed, closed
    tasksSeen,           \* NewTask records received from NewTaskCreatedChan
    newTaskCreatedLog,   \* Start's local: the task being handled (optional)
    sp1Oob,              \* verdict the SP1 verifier gave on an oversized input
    taskResponse,        \* Start's local: result of ProcessNewTaskCreatedLog
    responseSignature,   \* Start's local: signature returned by SignTaskResponse
    signErr,             \* Start's local err of line 117 was non-nil (and logged)
    signedTaskResponse,  \* Start's local: the struct built at lines 122-126
    sent,                \* responses handed to go SendSignedTaskResponseToAggregator
    arrived,             \* task indices in the order the aggregator got them
    abandonable,         \* history: received tasks with a failing fetch or unknown id
    afterResubscribe     \* history: tasks received on a re-opened subscription

vars == <<pc, startupFailures, fatalLog, panic, ctxCancelled, sub, subState,
          tasksSeen, newTaskCreatedLog,
          sp1Oob, taskResponse, responseSignature, signErr, signedTaskResponse,
          sent, arrived, abandonable, afterResubscribe>>

startup == <<startupFailures, fatalLog>>
locals == <<newTaskCreatedLog, sp1Oob, taskResponse, responseSignature, signErr,
            signedTaskResponse>>
subscription == <<sub, subState>>
aggregator == <<sent, arrived>>
history == <<abandonable, afterResubscribe>>

(* ---------------------------- subscriptions ---------------------------- *)

\* The channel made once by NewOperatorFromConfig and kept in the operator.
NewTaskCreatedChan == "NewTaskCreatedChan"

\* Variant: every new subscription after the first is given a channel of
\* its own.
SubscriptionChannelFresh(handle) ==
    IF handle = 1 THEN NewTaskCreatedChan ELSE "freshChan"

\* The channel o.SubscribeToNewTasks() hands to the subscription it opens.
SubscriptionChannel(handle) == NewTaskCreatedChan

\* o.SubscribeToNewTasks(): a new live subscription feeding NewTaskCreatedChan;
\* its handle is its position in the result.
SubscribeToNewTasks(subscriptions) == Append(subscriptions, "active")

\* Variant: the old handle is not released.
UnsubscribeNothing(subscriptions, handle) == subscriptions

\* sub.Unsubscribe()
Unsubscribe(subscriptions, handle) == [subscriptions EXCEPT ![handle] = "closed"]

\* Subscriptions that have been opened and not released.
Unreleased == {h \in DOMAIN subState : subState[h] # "closed"}

\* context.Background().Done(): the channel of a context nobody can cancel
\* is never ready, whatever happened to the ctx argument.
BackgroundDone == FALSE

\* The cases of Start's select that are ready.  A task is ready when the
\* live subscription has one to hand over.
ReadyCases ==
    {c \in {"done", "err", "task"} :
        \/ c = "done" /\ BackgroundDone
        \/ c = "err" /\ subState[sub] = "failed"
        \/ /\ c = "task"
           /\ subState[sub] = "active"
           /\ SubscriptionChannel(sub) = NewTaskCreatedChan
           /\ tasksSeen < MaxTasks}

\* Some fetch of the task fails or some proof names an unknown proving system.
HasAbandonCause(log) ==
    \E i \in DOMAIN ProofsOf(log) :
        LET p == ProofsOf(log)[i]
        IN  \/ p.Solution \in {EigenDA, Celestia} /\ p.Backend.err
            \/ p.ProvingSystemId \notin KnownSystems

\* The identifying part of a SignedTaskResponse held by a submission.
Header(signed) ==
    [TaskIndex |-> signed.TaskResponse.TaskIndex, OperatorId |-> signed.OperatorId]

SentIndices == {sent[i].TaskIndex : i \in DOMAIN sent}
\* Submissions whose goroutine has not finished.
InFlight == SentIndices \ Range(arrived)

\* Start has been called and has neither panicked nor returned.
Running == pc \notin {"new", "exited", "failed", "crashed", "returned"}

\* What can fail while NewOperatorFromConfig runs: the creation of the AVS
\* reader, the IsOperatorRegistered call, the registration itself, the
\* creation of the AVS subscriber, the creation of the aggregator RPC client.
StartupFailures ==
    {"avsReader", "isOperatorRegistered", "notRegistered", "avsSubscriber",
     "aggRpcClient"}

\* log.Fatalf: the message is logged and the process exits.
Fatalf(message) == [outcome |-> "exited", log |-> message]

\* Variant: a missing registration is not checked.
NewOperatorFromConfigUnchecked(failures) ==
    IF "avsReader" \in failures
    THEN Fatalf("Could not create AVS reader")
    ELSE IF "isOperatorRegistered" \in failures
    THEN Fatalf("Could not check if operator is registered")
    ELSE IF "avsSubscriber" \in failures
    THEN Fatalf("Could not create AVS subscriber")
    ELSE IF "aggRpcClient" \in failures
    THEN [outcome |-> "failed", log |-> ""]
    ELSE [outcome |-> "start", log |-> ""]

\* NewOperatorFromConfig: the dependencies are built in order and the first
\* failure ends the construction, with log.Fatalf for all but the
\* aggregator RPC client, whose failure is returned as (nil, error).
NewOperatorFromConfig(failures) ==
    IF "avsReader" \in failures
    THEN Fatalf("Could not create AVS reader")
    ELSE IF "isOperatorRegistered" \in failures
    THEN Fatalf("Could not check if operator is registered")
    ELSE IF "notRegistered" \in failures
    THEN Fatalf("Operator is not registered with AlignedLayer AVS")
    ELSE IF "avsSubscriber" \in failures
    THEN Fatalf("Could not create AVS subscriber")
    ELSE IF "aggRpcClient" \in failures
    THEN [outcome |-> "failed", log |-> ""]
    ELSE [outcome |-> "start", log |-> ""]

(* ------------------------------ actions -------------------------------- *)

Init ==
    /\ pc = "new"
    /\ startupFailures = {}
    /\ fatalLog = ""
    /\ panic = ""
    /\ ctxCancelled = FALSE
    /\ sub = 0
    /\ subState = <<>>
    /\ tasksSeen = 0
    /\ newTaskCreatedLog = Nil
    /\ sp1Oob = "false"
    /\ taskResponse = Nil
    /\ responseSignature = Nil
    /\ signErr = FALSE
    /\ signedTaskResponse = Nil
    /\ sent = <<>>
    /\ arrived = <<>>
    /\ abandonable = {}
    /\ afterResubscribe = {}

\* The process builds its operator: it exits on a fatal log, is left without
\* an operator when the constructor returns an error, or goes on to Start.
Construct ==
    /\ pc = "new"
    /\ \E failures \in SUBSET StartupFailures :
         /\ startupFailures' = failures
         /\ pc' = NewOperatorFromConfig(failures).outcome
         /\ fatalLog' = NewOperatorFromConfig(failures).log
    /\ UNCHANGED <<panic, ctxCancelled, subscription, tasksSeen, locals, aggregator,
                   history>>

\* Start, line 104: sub := o.SubscribeToNewTasks()
StartSubscribe ==
    /\ pc = "start"
    /\ subState' = SubscribeToNewTasks(subState)
    /\ sub' = Len(subState')
    /\ pc' = "select"
    /\ UNCHANGED <<startup, panic, ctxCancelled, tasksSeen, locals, aggregator,
                   history>>

\* Start, lines 106-115: the select takes one of its ready cases; the task
\* received carries one of the given lists of proofs.
StartSelectFrom(proofLists) ==
    /\ pc = "select"
    /\ \E c \in ReadyCases :
         CASE c = "done" ->
                /\ pc' = "returned"
                /\ UNCHANGED <<tasksSeen, locals, history>>
           [] c = "err" ->
                /\ pc' = "unsubscribe"
                /\ UNCHANGED <<tasksSeen, locals, history>>
           [] c = "task" ->
                \E proofs \in proofLists :
                    LET log == NewTaskCreated(tasksSeen, proofs)
                    IN  /\ newTaskCreatedLog' = Some(log)
                        /\ tasksSeen' = tasksSeen + 1
                        /\ abandonable' =
                              IF HasAbandonCause(log)
                              THEN abandonable \cup {log.TaskIndex} ELSE abandonable
                        /\ afterResubscribe' =
                              IF sub > 1
                              THEN afterResubscribe \cup {log.TaskIndex}
                              ELSE afterResubscribe
                        /\ pc' = "process"
                        /\ UNCHANGED <<sp1Oob, taskResponse, responseSignature,
                                       signErr, signedTaskResponse>>
    /\ UNCHANGED <<startup, panic, ctxCancelled, subscription, aggregator>>

StartSelect == StartSelectFrom(ProofLists)

\* Start, line 112: sub.Unsubscribe()
StartUnsubscribe ==
    /\ pc = "unsubscribe"
    /\ subState' = Unsubscribe(subState, sub)
    /\ pc' = "resubscribe"
    /\ UNCHANGED <<startup, panic, ctxCancelled, sub, tasksSeen, locals, aggregator,
                   history>>

\* Variant: the loop goes back to the select without subscribing again.
StartResubscribeMissing ==
    /\ pc = "resubscribe"
    /\ pc' = "select"
    /\ UNCHANGED <<startup, panic, ctxCancelled, subscription, tasksSeen, locals,
                   aggregator,
                   history>>

\* Start, line 113: sub = o.SubscribeToNewTasks()
StartResubscribe ==
    /\ pc = "resubscribe"
    /\ subState' = SubscribeToNewTasks(subState)
    /\ sub' = Len(subState')
    /\ pc' = "select"
    /\ UNCHANGED <<startup, panic, ctxCancelled, tasksSeen, locals, aggregator,
                   history>>

\* Variant: the task is handed to a goroutine of its own and the loop goes
\* back to the select while the task is still being verified.
StartProcessDetached ==
    /\ pc = "process"
    /\ pc' = "select"
    /\ UNCHANGED <<startup, panic, ctxCancelled, subscription, tasksSeen, locals,
                   aggregator, history>>

\* Start, line 116: taskResponse := o.ProcessNewTaskCreatedLog(newTaskCreatedLog)
StartProcess ==
    /\ pc = "process"
    /\ \E oob \in Sp1Behaviours(newTaskCreatedLog[1]) :
         /\ sp1Oob' = oob
         /\ taskResponse' = ProcessNewTaskCreatedLog(newTaskCreatedLog[1], oob)
    /\ pc' = "sign"
    /\ UNCHANGED <<startup, panic, ctxCancelled, subscription, tasksSeen,
                   newTaskCreatedLog,
                   responseSignature, signErr, signedTaskResponse, aggregator,
                   history>>

\* Start, lines 117-120: SignTaskResponse dereferences its argument at line
\* 263, which panics on the nil of an abandoned task; an error is logged.
StartSign ==
    /\ pc = "sign"
    /\ IF taskResponse = Nil
       THEN /\ pc' = "crashed"
            /\ panic' = "SignTaskResponse:263"
            /\ UNCHANGED <<responseSignature, signErr>>
       ELSE \E encodeFails \in BOOLEAN :
                LET r == SignTaskResponse(taskResponse[1], encodeFails)
                IN  /\ responseSignature' = r.signature
                    /\ signErr' = r.err
                    /\ pc' = "build"
                    /\ panic' = panic
    /\ UNCHANGED <<startup, ctxCancelled, subscription, tasksSeen, newTaskCreatedLog,
                   sp1Oob,
                   taskResponse, signedTaskResponse, aggregator, history>>

\* Variant: the struct literal leaves OperatorId at its zero value.
StartBuildNoOperatorId ==
    /\ pc = "build"
    /\ IF responseSignature = Nil
       THEN /\ pc' = "crashed"
            /\ panic' = "Start:124"
            /\ UNCHANGED signedTaskResponse
       ELSE /\ signedTaskResponse' =
                  Some([TaskResponse |-> taskResponse[1],
                        BlsSignature |-> responseSignature[1],
                        OperatorId |-> <<"operatorId", "">>])
            /\ pc' = "spawn"
            /\ panic' = panic
    /\ UNCHANGED <<startup, ctxCancelled, subscription, tasksSeen, newTaskCreatedLog,
                   sp1Oob, taskResponse, responseSignature, signErr, aggregator,
                   history>>

\* Start, lines 122-128: the struct literal dereferences responseSignature
\* at line 124, which panics on the nil returned with a signing error.
StartBuild ==
    /\ pc = "build"
    /\ IF responseSignature = Nil
       THEN /\ pc' = "crashed"
            /\ panic' = "Start:124"
            /\ UNCHANGED signedTaskResponse
       ELSE /\ signedTaskResponse' =
                  Some([TaskResponse |-> taskResponse[1],
                        BlsSignature |-> responseSignature[1],
                        OperatorId |-> OperatorId])
            /\ pc' = "spawn"
            /\ panic' = panic
    /\ UNCHANGED <<startup, ctxCancelled, subscription, tasksSeen, newTaskCreatedLog,
                   sp1Oob,
                   taskResponse, responseSignature, signErr, aggregator, history>>

\* Variant: the call is made without go; the loop waits for it to return.
StartSpawnBlocking ==
    /\ pc = "spawn"
    /\ sent' = Append(sent, Header(signedTaskResponse[1]))
    /\ pc' = "sending"
    /\ UNCHANGED <<startup, panic, ctxCancelled, subscription, tasksSeen, locals,
                   arrived,
                   history>>

\* Start, line 129: go o.aggRpcClient.SendSignedTaskResponseToAggregator(...)
\* The loop goes back to the select; the iteration's locals go out of scope.
StartSpawn ==
    /\ pc = "spawn"
    /\ sent' = Append(sent, Header(signedTaskResponse[1]))
    /\ pc' = "select"
    /\ newTaskCreatedLog' = Nil
    /\ sp1Oob' = "false"
    /\ taskResponse' = Nil
    /\ responseSignature' = Nil
    /\ signErr' = FALSE
    /\ signedTaskResponse' = Nil
    /\ UNCHANGED <<startup, panic, ctxCancelled, subscription, tasksSeen, arrived,
                   history>>

\* Variant: the submissions are delivered one after the other, in the
\* order they were made.
SendSignedTaskResponseInOrder ==
    /\ pc # "crashed"
    /\ \E taskIndex \in InFlight :
         /\ \A other \in InFlight : taskIndex <= other
         /\ arrived' = Append(arrived, taskIndex)
    /\ UNCHANGED <<pc, startup, panic, ctxCancelled, subscription, tasksSeen, locals,
                   sent, history>>

\* A detached SendSignedTaskResponseToAggregator delivers its response.
SendSignedTaskResponseToAggregator ==
    /\ pc # "crashed"
    /\ \E taskIndex \in InFlight : arrived' = Append(arrived, taskIndex)
    /\ UNCHANGED <<pc, startup, panic, ctxCancelled, subscription, tasksSeen, locals,
                   sent,
                   history>>

\* The live subscription reports an error on sub.Err().
SubscriptionError ==
    /\ Running
    /\ sub > 0
    /\ subState[sub] = "active"
    /\ Len(subState) <= MaxSubErrors
    /\ subState' = [subState EXCEPT ![sub] = "failed"]
    /\ UNCHANGED <<pc, startup, panic, ctxCancelled, sub, tasksSeen, locals, aggregator,
                   history>>

\* The caller cancels the ctx it passed to Start.
CancelContext ==
    /\ Running
    /\ ~ctxCancelled
    /\ ctxCancelled' = TRUE
    /\ UNCHANGED <<pc, startup, panic, subscription, tasksSeen, locals, aggregator,
                   history>>

\* The steps of the loop after a task has been received or an error taken.
LoopBody ==
    \/ StartUnsubscribe
    \/ StartResubscribe
    \/ StartProcess
    \/ StartSign
    \/ StartBuild
    \/ StartSpawn

Loop ==
    \/ StartSubscribe
    \/ StartSelect
    \/ LoopBody

Environment ==
    \/ SendSignedTaskResponseToAggregator
    \/ SubscriptionError
    \/ CancelContext

Next == Construct \/ Loop \/ Environment

Spec == Init /\ [][Next]_vars

\* The operator while its caller leaves the ctx alone: no step of the loop
\* reads the ctx argument, so every step of Spec but the cancellation.
UncancelledNext ==
    \/ Construct
    \/ Loop
    \/ SendSignedTaskResponseToAggregator
    \/ SubscriptionError

UncancelledSpec == Init /\ [][UncancelledNext]_vars

\* The loop fed with the core proofs only.
StartSelectCore == StartSelectFrom(CoreProofLists)
CoreNext ==
    \/ Construct
    \/ StartSubscribe
    \/ StartSelectCore
    \/ LoopBody
    \/ Environment

CoreSpec == Init /\ [][CoreNext]_vars

\* A step of the loop other than the receipt of a task: whether and when a
\* task arrives is up to the chain.
LoopProgress ==
    (StartSubscribe \/ StartSelectCore \/ LoopBody) /\ pc' # "process"

\* The Go scheduler runs a goroutine that can take a step.
FairSpec ==
    /\ Init /\ [][CoreNext]_vars
    /\ WF_vars(LoopProgress)
    /\ WF_vars(SendSignedTaskResponseToAggregator)

\* The loop up to the return of ProcessNewTaskCreatedLog for the first
\* task it receives: the processing of every task the chain may announce.
ProcessingNext ==
    \/ Construct
    \/ StartSubscribe
    \/ StartSelect
    \/ StartProcess

ProcessingSpec == Init /\ [][ProcessingNext]_vars

(* ------------------------------ claims --------------------------------- *)

\* The task the loop is handling, if any.
Current == Range(newTaskCreatedLog)

\* ProcessNewTaskCreatedLog has returned for the current task.
Processed == pc \in {"sign", "build", "spawn", "crashed"}

\* The backend and verifier calls ProcessNewTaskCreatedLog has made for the
\* current task.
ProcessCalls ==
    IF Processed /\ Current # {}
    THEN Range(CallsFrom(newTaskCreatedLog[1], 1, sp1Oob))
    ELSE {}

\* C1: once the loop runs, no task-level failure terminates the process:
\* when the processing of a task has been abandoned (ProcessNewTaskCreatedLog
\* returned nil), the loop has not crashed.
C1_AbandonedTaskKeepsLoopRunning ==
    (Current # {} /\ Processed /\ taskResponse = Nil) => pc # "crashed"

\* C2: no SignedTaskResponse is ever handed to
\* SendSignedTaskResponseToAggregator for a task in which a fetch fails or a
\* proof names an unknown proving system.
C2_AbandonedNeverSubmitted ==
    /\ \A taskIndex \in abandonable : taskIndex \notin SentIndices
    /\ \A log \in Current :
          HasAbandonCause(log) =>
              /\ signedTaskResponse = Nil
              /\ responseSignature = Nil
              /\ Processed => taskResponse = Nil

\* An abandoned task has been handled to its end, after an earlier task
\* was submitted.
C2_Witness ==
    /\ \E log \in Current : HasAbandonCause(log) /\ log.TaskIndex \in abandonable
    /\ Processed
    /\ pc = "crashed"
    /\ sent # <<>>

\* C3: once the ctx passed to Start is cancelled, Start eventually returns
\* with the subscription released (unless the process has panicked before
\* it could).
C3_ShutdownPropagates ==
    ctxCancelled ~> (pc = "crashed" \/ (pc = "returned" /\ Unreleased = {}))

C5_AtMostOneSubscription == Cardinality(Unreleased) <= 1

\* The subscription has been replaced and the new one is live.
C5_Witness ==
    /\ sub > 1
    /\ subState[sub] = "active"
    /\ subState[sub - 1] = "closed"

\* C6: when SignTaskResponse returns an error the error is logged, nothing
\* is submitted for the task and the loop goes on without crashing.
C6_SigningErrorSkipsSubmission ==
    signErr =>
        /\ pc # "crashed"
        /\ \A log \in Current : log.TaskIndex \notin SentIndices

\* C7: a response carries as many results as its task has proofs, and the
\* task's index.
C7_ResponseShape ==
    \A log \in Current : \A response \in Range(taskResponse) :
        /\ Len(response.ProofResults) = Len(ProofsOf(log))
        /\ response.TaskIndex = log.TaskIndex

\* A second task with two proofs has a response.
C7_Witness ==
    \E log \in Current :
        /\ taskResponse # Nil
        /\ Len(ProofsOf(log)) = 2
        /\ log.TaskIndex > 0

\* The bytes the verifier of proof p is given.
ProofBytes(p) ==
    IF p.Solution = Calldata THEN p.ProofAssociatedData
    ELSE IF p.Solution \in {EigenDA, Celestia} THEN p.Backend.blob
    ELSE <<>>

\* The verdict of the verifier named by p.ProvingSystemId on p's proof
\* bytes, public input and verification key.
Verdict(p, oob) ==
    CASE p.ProvingSystemId = GnarkPlonkBls12_381 ->
            verifyPlonkProof(ProofBytes(p), p.PubInput, p.VerificationKey, "BLS12_381")
      [] p.ProvingSystemId = GnarkPlonkBn254 ->
            verifyPlonkProof(ProofBytes(p), p.PubInput, p.VerificationKey, "BN254")
      [] p.ProvingSystemId = SP1 ->
            VerifySp1Proof(CopyInto(MaxProofSize, ProofBytes(p)), Len(ProofBytes(p)),
                           CopyInto(MaxElfBufferSize, p.PubInput), Len(p.PubInput),
                           oob) = "true"

\* C8: in a response, the result at index i is the verdict of the verifier
\* selected by the i-th proof's provingSystemId on the i-th proof.
C8_OrderingPreserved ==
    \A log \in Current : \A response \in Range(taskResponse) :
        \A i \in DOMAIN ProofsOf(log) :
            response.ProofResults[i] = Verdict(ProofsOf(log)[i], sp1Oob)

\* A response with mixed verdicts: an invalid proof before a valid one.
C8_Witness ==
    \E response \in Range(taskResponse) :
        /\ Len(response.ProofResults) = 2
        /\ ~response.ProofResults[1]
        /\ response.ProofResults[2]

\* The PLONK proof p is malformed: its proof, public witness or verifying
\* key cannot be deserialized.
Malformed(p) ==
    /\ p.ProvingSystemId \in {GnarkPlonkBls12_381, GnarkPlonkBn254}
    /\ \/ Len(ProofBytes(p)) = 0
       \/ Len(p.PubInput) = 0
       \/ Len(p.VerificationKey) = 0

\* The proof p does not verify.
FailsToVerify(p) ==
    /\ p.ProvingSystemId \in KnownSystems
    /\ \/ Malformed(p)
       \/ \A oob \in Sp1OutOfBounds : ~Verdict(p, oob)

\* C9: a proof that fails to verify records false at its index and does
\* not abandon the task: a task without a failing fetch or unknown proving
\* system gets a response, with false for each such proof, which is handed
\* to the submitter once it is signed.
C9_FailedProofRecordsFalse ==
    /\ [](\A log \in Current :
            (Processed /\ ~HasAbandonCause(log)) =>
                /\ taskResponse # Nil
                /\ \A i \in DOMAIN ProofsOf(log) :
                      FailsToVerify(ProofsOf(log)[i]) =>
                          ~taskResponse[1].ProofResults[i])
    /\ [][\A log \in Current :
            (pc = "spawn" /\ pc' # "spawn") => log.TaskIndex \in SentIndices']_vars

\* A signed response with false for a malformed first proof and true for
\* the proof after it.
C9_Witness ==
    \E log \in Current : \E signed \in Range(signedTaskResponse) :
        /\ Len(ProofsOf(log)) = 2
        /\ Malformed(ProofsOf(log)[1])
        /\ ~signed.TaskResponse.ProofResults[1]
        /\ signed.TaskResponse.ProofResults[2]

\* C10: the loop never waits for a submission: whenever it is not in the
\* select it can take its next step, and in the select every ready case
\* can be taken, whatever submissions are in flight.
C10_LoopNeverBlocksOnSubmission ==
    Running =>
        /\ pc # "select" => ENABLED Loop
        /\ (pc = "select" /\ ReadyCases # {}) => ENABLED StartSelect

\* The loop handles a subscription error while two submissions are in flight.
C10_Witness ==
    /\ Cardinality(InFlight) = 2
    /\ pc = "unsubscribe"

\* The startup failures the specification calls unrecoverable.
Unrecoverable == {"avsReader", "notRegistered", "avsSubscriber", "aggRpcClient"}

\* Start has not been entered: nothing was subscribed and no task received.
LoopNotEntered == sub = 0 /\ subState = <<>> /\ tasksSeen = 0 /\ sent = <<>>

\* C15 (as stated): each of the four unrecoverable startup failures ends the
\* process with a fatal log inside NewOperatorFromConfig, and the loop is
\* not entered.
C15_StartupFailuresAreFatal ==
    (pc # "new" /\ startupFailures \cap Unrecoverable # {}) =>
        /\ pc = "exited"
        /\ fatalLog # ""
        /\ LoopNotEntered

\* C15 (amended): after any of the four unrecoverable startup failures
\* NewOperatorFromConfig yields no operator and the loop is not entered; a
\* failure of the chain reader, the registration or the subscriber ends the
\* process with a fatal log, while a failure of the aggregator client alone
\* is returned to the caller as an error, without a fatal log.
C15_StartupFailuresYieldNoOperator ==
    (pc # "new" /\ startupFailures \cap Unrecoverable # {}) =>
        /\ pc \in {"exited", "failed"}
        /\ LoopNotEntered
        /\ startupFailures \cap (Unrecoverable \ {"aggRpcClient"}) # {} =>
              (pc = "exited" /\ fatalLog # "")
        /\ startupFailures = {"aggRpcClient"} =>
              (pc = "failed" /\ fatalLog = "")

\* The aggregator client could not be created and the constructor returned
\* its error.
C15_Witness ==
    /\ pc = "failed"
    /\ startupFailures = {"aggRpcClient"}

\* The positions of the loop at which it verifies, signs and hands over a task.
TaskSteps == {"process", "sign", "build", "spawn"}

\* C11: the loop verifies and signs one task at a time, in the order the
\* tasks were received from NewTaskCreatedChan: the task being handled is
\* the last one received, every task received before it has been handed
\* to the submitter, in the order of receipt, and the loop holds no task
\* when it is not at one of the steps that handle one.  Only submissions
\* run beside the loop.
C11_SerialProcessing ==
    /\ \A i, j \in DOMAIN sent : i < j => sent[i].TaskIndex < sent[j].TaskIndex
    /\ \A log \in Current :
          /\ log.TaskIndex = tasksSeen - 1
          /\ log.TaskIndex \notin SentIndices
          /\ pc \in TaskSteps \cup {"crashed"}
    /\ \A taskIndex \in 0..(tasksSeen - 1) :
          \/ taskIndex \in SentIndices
          \/ \E log \in Current : log.TaskIndex = taskIndex
    /\ pc \in TaskSteps => Current # {}

\* The second task is being signed while the submission of the first is
\* still in flight.
C11_Witness ==
    /\ pc = "sign"
    /\ \E log \in Current : log.TaskIndex = 1
    /\ 0 \in InFlight

\* The submissions made for the task with the given index.
SubmissionsOf(taskIndex) == {i \in DOMAIN sent : sent[i].TaskIndex = taskIndex}

\* C12: a task that has been processed and signed is handed to the
\* submitter exactly once, in a SignedTaskResponse that carries the task's
\* index and the operator's id; nothing is handed over for a task before
\* that, and no task is submitted twice.
C12_ExactlyOneSubmission ==
    /\ \A taskIndex \in 0..(tasksSeen - 1) :
          IF \E log \in Current : log.TaskIndex = taskIndex
          THEN SubmissionsOf(taskIndex) = {}
          ELSE Cardinality(SubmissionsOf(taskIndex)) = 1
    /\ \A i \in DOMAIN sent :
          /\ sent[i].TaskIndex \in 0..(tasksSeen - 1)
          /\ sent[i].OperatorId = OperatorId
    /\ \A log \in Current : \A signed \in Range(signedTaskResponse) :
          /\ signed.TaskResponse.TaskIndex = log.TaskIndex
          /\ signed.OperatorId = OperatorId

\* Two tasks have been submitted and both submissions have arrived.
C12_Witness ==
    /\ Len(sent) = 2
    /\ Len(arrived) = 2
    /\ pc = "select"

\* Start is in its loop: in the select or handling the case it took.
InLoop == pc \in {"select", "unsubscribe", "resubscribe"} \cup TaskSteps

\* C13: once Start has subscribed, it leaves its loop only by returning on
\* the cancellation of its context: neither a subscription error nor a
\* task ends the loop.
C13_LoopEndsOnlyOnCancellation ==
    /\ pc \in {"returned", "crashed"} => (pc = "returned" /\ ctxCancelled)
    /\ sub > 0 => (InLoop \/ pc = "returned")

\* C14: nothing orders the submissions: while the process runs, any
\* submission in flight can be the next to reach the aggregator, so the
\* response of a later task can arrive before that of an earlier one.
C14_ArrivalOrderNotGuaranteed ==
    pc # "crashed" =>
        \A taskIndex \in InFlight :
            ENABLED (/\ SendSignedTaskResponseToAggregator
                     /\ arrived' = Append(arrived, taskIndex))

\* The response of the second task has arrived before that of the first.
C14_Witness ==
    \E i, j \in DOMAIN arrived : i < j /\ arrived[i] > arrived[j]

\* C16: an SP1 proof or ELF longer than its buffer is a verification
\* failure: the verifier is never called with a declared length beyond its
\* buffer, the verdict recorded for such a proof is false, and the operator
\* does not crash on it.
C16_OversizedSp1IsRejected ==
    \A log \in Current :
        Processed =>
            /\ \A call \in ProcessCalls :
                  (call.kind = "verify" /\ call.target = SP1) =>
                      /\ call.proofLen <= MaxProofSize
                      /\ call.elfLen <= MaxElfBufferSize
            /\ \A response \in Range(taskResponse) :
                  \A i \in DOMAIN ProofsOf(log) :
                      Oversized(ProofsOf(log)[i]) => ~response.ProofResults[i]
            /\ pc = "crashed" => (HasAbandonCause(log) \/ signErr)

\* Among the calls, one of the verifier for proof i with the given proof bytes.
Verified(calls, i, proof) ==
    \E call \in calls :
        call.kind = "verify" /\ call.index = i /\ call.proof = proof

\* Among the calls, one of a DA backend for proof i.
Fetched(calls, i) == \E call \in calls : call.kind = "fetch" /\ call.index = i

UnnamedSolution(p) == p.Solution \notin {Calldata, EigenDA, Celestia}

\* C18: a proof whose solution is none of Calldata, EigenDA and Celestia
\* does not abandon the task: nothing is fetched for it, and the verifier
\* its provingSystemId names is called with an empty proof; the task is
\* abandoned only for a failing fetch or an unknown proving system.
C18_UnnamedSolutionProceeds ==
    \A log \in Current :
        Processed =>
            LET data == ProofsOf(log)
                calls == ProcessCalls
            IN  /\ \A i \in DOMAIN data :
                      UnnamedSolution(data[i]) =>
                          /\ ~Fetched(calls, i)
                          /\ \A call \in calls :
                                call.index = i => call.proof = <<>>
                /\ ~HasAbandonCause(log) =>
                      /\ taskResponse # Nil
                      /\ \A i \in DOMAIN data :
                            UnnamedSolution(data[i]) => Verified(calls, i, <<>>)

\* A task with a proof of unnamed solution, followed by another proof, has
\* its response.
C18_Witness ==
    \E log \in Current :
        /\ Processed
        /\ taskResponse # Nil
        /\ Len(ProofsOf(log)) = 2
        /\ UnnamedSolution(ProofsOf(log)[1])
        /\ Verified(ProcessCalls, 1, <<>>)
        /\ Verified(ProcessCalls, 2, <<1>>)

\* The fetch of proof p fails.
FetchFails(p) == p.Solution \in {EigenDA, Celestia} /\ p.Backend.err

\* Proof p abandons its task: its fetch fails or its proving system is
\* unknown.
AbandonsAt(p) == FetchFails(p) \/ p.ProvingSystemId \notin KnownSystems

\* C19: processing stops at the first proof that abandons the task: when
\* proof i is the first whose fetch fails or whose proving system is
\* unknown, no backend and no verifier is called for a proof after i (nor
\* a verifier for proof i), every proof before i has been fetched, where
\* it has a backend, and verified, and the task has no response.
C19_StopsAtFirstAbandon ==
    \A log \in Current :
        Processed =>
            LET data == ProofsOf(log)
                calls == ProcessCalls
            IN  \A i \in DOMAIN data :
                    (AbandonsAt(data[i]) /\ \A j \in 1..(i - 1) : ~AbandonsAt(data[j])) =>
                        /\ \A call \in calls :
                              /\ call.index <= i
                              /\ call.index = i => call.kind = "fetch"
                        /\ \A j \in 1..(i - 1) :
                              /\ \E call \in calls :
                                    call.kind = "verify" /\ call.index = j
                              /\ data[j].Solution \in {EigenDA, Celestia} => Fetched(calls, j)
                        /\ data[i].Solution \in {EigenDA, Celestia} => Fetched(calls, i)
                        /\ taskResponse = Nil

\* The fetch of the first proof has failed and the second proof, which has
\* a backend of its own, has been left alone.
C19_Witness ==
    \E log \in Current :
        /\ Processed
        /\ Len(ProofsOf(log)) = 2
        /\ FetchFails(ProofsOf(log)[1])
        /\ ProofsOf(log)[2].Solution = Celestia
        /\ ~AbandonsAt(ProofsOf(log)[2])
        /\ Fetched(ProcessCalls, 1)
        /\ ~Fetched(ProcessCalls, 2)

\* C20: a subscription error reported while a task is being verified or
\* signed does not interrupt the task: the loop goes on with the task, and
\* when it handles the error it holds no task and every task it received
\* has been handed to the submitter; every subscription, the first and
\* its replacements, feeds the one channel the loop receives from.
C20_ErrorWaitsForCurrentTask ==
    /\ (pc \in TaskSteps /\ subState[sub] = "failed") =>
          /\ Current # {}
          /\ ENABLED LoopBody
          /\ ~ENABLED StartUnsubscribe
    /\ pc \in {"unsubscribe", "resubscribe"} =>
          /\ Current = {}
          /\ \A taskIndex \in 0..(tasksSeen - 1) : taskIndex \in SentIndices
    /\ \A handle \in DOMAIN subState : SubscriptionChannel(handle) = NewTaskCreatedChan

\* The subscription has failed while the first task was being handled; the
\* loop is about to hand the signed response to the submitter.
C20_Witness ==
    /\ pc = "spawn"
    /\ subState[sub] = "failed"
    /\ signedTaskResponse # Nil
    /\ sent = <<>>

====
